---- MODULE Spec2Model ----
(***************************************************************************)
(* Light Cycle: a verification model of three of the library's classes.    *)
(*                                                                         *)
(*   AsyncDomManager    async-mem-dom-manager/async-mem-dom-manager.js     *)
(*   DomElementManager  dom-element-manager (pools and updateContainer)    *)
(*   MemoryManager      memory-management (monitor, compaction)            *)
(*                                                                         *)
(* The classes share no state, so each has its own next-state relation and *)
(* specification over the common variables.  Variables whose name starts   *)
(* with "h" are history variables: they record what a handler did (calls   *)
(* made, values returned) and are never read by a handler.                 *)
(***************************************************************************)
EXTENDS Integers, Sequences, FiniteSets, TLC

\* ------------------------------------------------------------------------
\* Bounds of the model
\* ------------------------------------------------------------------------
\* Number of registerAsyncOperation calls explored.
MaxOps == 2
\* Number of DOM elements the callers of AsyncDomManager hold.
NumAsyncElements == 2
\* Calls of one binding's cleanupFunction explored (a throwing one is called
\* again by every clearAllOperations).
MaxTeardownCalls == 2

\* document.createElement calls explored by the pool model.
MaxHandles == 2
\* Longest pool explored (a pool grows with every releaseElement).
MaxPool == 2
\* Longest items list passed to updateContainer.
MaxItems == 2
\* Longest items list, and number of updateContainer calls, of the runs that
\* start from empty pools and only call updateContainer.
RunItems == 4
RunCalls == 3
\* Number of startMonitoring calls explored.
MaxTimers == 2
\* Largest heap reading explored (readings are 0..MaxSample).
MaxSample == 2
\* compactHeap runs counted within one low-traffic period.
MaxWindowCompactions == 2
\* The longest dataArray, in multiples of chunkSize.
MaxChunks == 2
\* The longest series learnMemoryPattern builds for one operation name.
MaxSeries == 6
\* The longest series getAverageMemoryUsage is called with.
\* registerOperation calls on one profiler
MaxTokens == 2
\* samples one profiler records in its series
MaxProfilerSamples == 2
MaxAverageLen == 4

\* ========================================================================
\*                              AsyncDomManager
\* ========================================================================

VARIABLES
    operations,     \* this.operations: the Map, as its entries in insertion order
    nextOp,         \* the next Symbol() to be created
    promise,        \* per operation: state of the promise passed to register
    thenPromise,    \* per operation: state of the promise returned by .then(...)
    elementHTML,    \* per element: TRUE while innerHTML is not empty
    elementInDoc,   \* per element: TRUE while the element itself is in the document
    hTeardown,      \* per operation: calls of its cleanupFunction
    hRelease,       \* per operation: calls of releaseElement made by its cleanup
    hDelete,        \* per operation: operations.delete calls made by its cleanup
    hErrorLogged,   \* per operation: console.error('Async operation failed:') calls
    hTeardownThrew, \* per operation: TRUE once its cleanupFunction has thrown
    hClearAll,      \* outcome of the last clearAllOperations: "none", "returned", "threw"
    hRegistered,    \* the last registerAsyncOperation: the id it made, what it returned
    hSteps          \* per operation: the steps its cleanups took, in order, each
                    \* with whether the entry was in the Map when the step ran

asyncVars == <<operations, nextOp, promise, thenPromise, elementHTML, elementInDoc,
               hTeardown, hRelease, hDelete, hErrorLogged, hTeardownThrew, hClearAll,
               hRegistered, hSteps>>

OpIds == 1..MaxOps
AsyncElements == 1..NumAsyncElements
\* The element argument may be null or undefined.
NoElement == 0
\* The optional cleanupFunction: absent, one that returns, one that throws.
CleanupKinds == {"none", "returns", "throws"}
\* The value of a call of a function that ends without a return statement.
Undefined == 0

AsyncInit ==
    /\ operations = << >>
    /\ nextOp = 1
    /\ promise = [i \in OpIds |-> "unregistered"]
    /\ thenPromise = [i \in OpIds |-> "pending"]
    /\ elementHTML = [e \in AsyncElements |-> TRUE]
    /\ elementInDoc = [e \in AsyncElements |-> TRUE]
    /\ hTeardown = [i \in OpIds |-> 0]
    /\ hRelease = [i \in OpIds |-> 0]
    /\ hDelete = [i \in OpIds |-> 0]
    /\ hErrorLogged = [i \in OpIds |-> 0]
    /\ hTeardownThrew = [i \in OpIds |-> FALSE]
    /\ hClearAll = "none"
    /\ hRegistered = [op |-> "none"]
    /\ hSteps = [i \in OpIds |-> << >>]

\* Map.has / Map.get
HasOperation(ops, id) == \E k \in 1..Len(ops) : ops[k].id = id
GetOperation(ops, id) == ops[CHOOSE k \in 1..Len(ops) : ops[k].id = id]
\* Map.delete: the other entries keep their order
DeleteOperation(ops, id) == SelectSeq(ops, LAMBDA o : o.id # id)

\* The part of the state a cleanup reads and writes, as one record.
AsyncState ==
    [ops |-> operations, html |-> elementHTML, inDoc |-> elementInDoc,
     teardown |-> hTeardown, release |-> hRelease, delete |-> hDelete,
     tthrew |-> hTeardownThrew, threw |-> FALSE, steps |-> hSteps]

\* releaseElement(element): a falsy element is skipped; otherwise innerHTML is
\* emptied and the element is replaced in the document by a listener-free clone.
ReleaseAsyncElement(st, element) ==
    IF element = NoElement THEN st
    ELSE [st EXCEPT !.html[element] = FALSE, !.inDoc[element] = FALSE]

\* One step of a cleanup, as hSteps records it.
CleanupStep(st, id, name) == [step |-> name, present |-> HasOperation(st.ops, id)]

\* A cleanupOperation that removes the entry from the Map first.
CleanupOperationDeleteFirst(st, id) ==
    IF ~HasOperation(st.ops, id) THEN st
    ELSE LET op == GetOperation(st.ops, id)
             s0 == [st EXCEPT !.steps[id] = Append(@, CleanupStep(st, id, "delete")),
                              !.ops = DeleteOperation(@, id),
                              !.delete[id] = @ + 1]
             s1 == IF op.cleanupFunction = "none" THEN s0
                   ELSE [s0 EXCEPT
                           !.teardown[id] = @ + 1,
                           !.steps[id] = Append(@, CleanupStep(s0, id, "cleanupFunction"))]
         IN  IF op.cleanupFunction = "throws"
             THEN [s1 EXCEPT !.tthrew[id] = TRUE, !.threw = TRUE]
             ELSE LET s2 == ReleaseAsyncElement(s1, op.element)
                  IN  [s2 EXCEPT
                         !.release[id] = @ + 1,
                         !.steps[id] = Append(@, CleanupStep(s1, id, "releaseElement"))]

\* cleanupOperation(operationId), run on the state st.  The result's threw
\* field is TRUE when the cleanupFunction threw: the statements after the
\* call (releaseElement, operations.delete) are then not executed.
CleanupOperation(st, id) ==
    IF ~HasOperation(st.ops, id) THEN st
    ELSE LET op == GetOperation(st.ops, id)
             s1 == IF op.cleanupFunction = "none" THEN st
                   ELSE [st EXCEPT
                           !.teardown[id] = @ + 1,
                           !.steps[id] = Append(@, CleanupStep(st, id, "cleanupFunction"))]
         IN  IF op.cleanupFunction = "throws"
             THEN [s1 EXCEPT !.tthrew[id] = TRUE, !.threw = TRUE]
             ELSE LET s2 == [ReleaseAsyncElement(s1, op.element) EXCEPT
                               !.release[id] = @ + 1,
                               !.steps[id] = Append(@, CleanupStep(s1, id, "releaseElement"))]
                  IN  [s2 EXCEPT
                         !.steps[id] = Append(@, CleanupStep(s2, id, "delete")),
                         !.ops = DeleteOperation(@, id),
                         !.delete[id] = @ + 1]

\* operations.forEach(... cleanupOperation(operationId)): the entries are visited
\* in insertion order; an exception thrown by a callback ends the iteration.
RECURSIVE ForEachCleanup(_, _)
ForEachCleanup(st, ids) ==
    IF ids = << >> THEN st
    ELSE LET s1 == CleanupOperation(st, Head(ids))
         IN  IF s1.threw THEN s1 ELSE ForEachCleanup(s1, Tail(ids))

SetAsyncState(st) ==
    /\ operations' = st.ops
    /\ elementHTML' = st.html
    /\ elementInDoc' = st.inDoc
    /\ hTeardown' = st.teardown
    /\ hRelease' = st.release
    /\ hDelete' = st.delete
    /\ hTeardownThrew' = st.tthrew
    /\ hSteps' = st.steps

\* registerAsyncOperation(promise, element, cleanupFunction)
RegisterAsyncOperation(element, cleanupFunction) ==
    /\ nextOp <= MaxOps
    /\ operations' = Append(operations,
           [id |-> nextOp, element |-> element, cleanupFunction |-> cleanupFunction])
    /\ promise' = [promise EXCEPT ![nextOp] = "pending"]
    /\ nextOp' = nextOp + 1
    /\ hRegistered' = [op |-> "registerAsyncOperation", operationId |-> nextOp,
                       returned |-> Undefined]
    /\ UNCHANGED <<thenPromise, elementHTML, elementInDoc, hTeardown, hRelease,
                   hDelete, hErrorLogged, hTeardownThrew, hClearAll, hSteps>>

\* The task behind a registered promise settles.
Settle(id, outcome) ==
    /\ promise[id] = "pending"
    /\ promise' = [promise EXCEPT ![id] = outcome]
    /\ UNCHANGED <<operations, nextOp, thenPromise, elementHTML, elementInDoc,
                   hTeardown, hRelease, hDelete, hErrorLogged, hTeardownThrew, hClearAll,
                   hRegistered, hSteps>>

\* The reaction job of promise.then(() => this.cleanupOperation(operationId)):
\* the callback runs only when the promise is fulfilled; a rejection passes
\* through to the derived promise, and so does an exception of the callback.
ThenReaction(id) ==
    /\ promise[id] \in {"fulfilled", "rejected"}
    /\ thenPromise[id] = "pending"
    /\ IF promise[id] = "fulfilled"
       THEN LET st == CleanupOperation(AsyncState, id)
            IN  /\ SetAsyncState(st)
                /\ thenPromise' = [thenPromise EXCEPT ![id] =
                                     IF st.threw THEN "rejected" ELSE "fulfilled"]
       ELSE /\ thenPromise' = [thenPromise EXCEPT ![id] = "rejected"]
            /\ UNCHANGED <<operations, elementHTML, elementInDoc, hTeardown,
                           hRelease, hDelete, hTeardownThrew, hSteps>>
    /\ UNCHANGED <<nextOp, promise, hErrorLogged, hClearAll, hRegistered>>

\* The reaction job of .catch((err) => console.error(...)).
CatchReaction(id) ==
    /\ thenPromise[id] \in {"fulfilled", "rejected"}
    /\ IF thenPromise[id] = "rejected"
       THEN hErrorLogged' = [hErrorLogged EXCEPT ![id] = @ + 1]
       ELSE UNCHANGED hErrorLogged
    /\ thenPromise' = [thenPromise EXCEPT ![id] = "handled"]
    /\ UNCHANGED <<operations, nextOp, promise, elementHTML, elementInDoc,
                   hTeardown, hRelease, hDelete, hTeardownThrew, hClearAll,
                   hRegistered, hSteps>>

\* clearAllOperations()
ClearAllOperations ==
    LET ids == [k \in 1..Len(operations) |-> operations[k].id]
        st == ForEachCleanup(AsyncState, ids)
    IN  /\ \A i \in OpIds : st.teardown[i] <= MaxTeardownCalls
        /\ SetAsyncState(st)
        /\ hClearAll' = IF st.threw THEN "threw" ELSE "returned"
        /\ UNCHANGED <<nextOp, promise, thenPromise, hErrorLogged, hRegistered>>


\* ========================================================================
\*                             DomElementManager
\* ========================================================================

VARIABLES
    pools,          \* this.pools: per key the array of available elements
    elemTag,        \* per created element: element.tagName.toLowerCase()
    children,       \* per container: container.children, in document order
    attached,       \* per created element: what callers have set on it
    hInUse,         \* elements returned by a caller's getElement, not released since
    hLast,          \* what the last DomElementManager call did
    hCalls          \* the updateContainer calls of a run of such calls only

domVars == <<pools, elemTag, children, attached, hInUse, hLast, hCalls>>

\* The tags callers pass as elementType.
Tags == {"div", "li", "DIV"}
\* String.prototype.toLowerCase on those tags.
ToLowerCase(tag) == IF tag = "DIV" THEN "div" ELSE tag
\* Every key a pool can be stored under.
PoolKeys == Tags \cup {ToLowerCase(t) : t \in Tags}
Containers == {"list"}
\* What a caller can set on an element: content, the class and style
\* attributes, another attribute, an event listener.
Marks == {"innerHTML", "class", "style", "id", "listener"}
\* What releaseElement resets: innerHTML = '', removeAttribute('class'),
\* removeAttribute('style').
ResetByRelease == {"innerHTML", "class", "style"}
\* The values of the items callers render.
ItemValues == {1}

\* this.pools = {}: a key that is absent and a key that holds an empty array
\* are not told apart (every method reads a pool through _getPool).
NoPools == [key \in PoolKeys |-> << >>]

DomInit ==
    /\ pools = NoPools
    /\ elemTag = << >>
    /\ children = [c \in Containers |-> << >>]
    /\ attached = << >>
    /\ hInUse = {}
    /\ hLast = [op |-> "none"]
    /\ hCalls = << >>

\* The part of the state the DomElementManager methods read and write.
DomState ==
    [pools |-> pools, elemTag |-> elemTag, children |-> children,
     attached |-> attached, inUse |-> hInUse]

\* Number of elements available in all pools together.
RECURSIVE SumSizes(_, _)
SumSizes(ps, keys) ==
    IF keys = {} THEN 0
    ELSE LET key == CHOOSE x \in keys : TRUE
         IN  Len(ps[key]) + SumSizes(ps, keys \ {key})
TotalPoolSize(ps) == SumSizes(ps, PoolKeys)
\* Number of pool slots, over all pools, that hold element h.
RECURSIVE SlotsIn(_, _)
SlotsIn(pool, h) ==
    IF pool = << >> THEN 0
    ELSE (IF Head(pool) = h THEN 1 ELSE 0) + SlotsIn(Tail(pool), h)
RECURSIVE SumSlots(_, _, _)
SumSlots(ps, keys, h) ==
    IF keys = {} THEN 0
    ELSE LET key == CHOOSE x \in keys : TRUE
         IN  SlotsIn(ps[key], h) + SumSlots(ps, keys \ {key}, h)
Slots(ps, h) == SumSlots(ps, PoolKeys, h)

\* _getPool(elementType): the array stored under the key (an absent key is
\* initialised to an empty array).
GetPool(ps, elementType) == ps[elementType]

\* A getElement whose test never finds an element in the pool.
PoolHasElementNever(pool) == Len(pool) < 0

\* The test of getElement: pool.length > 0
PoolHasElement(pool) == Len(pool) > 0
\* Array.prototype.pop: the last element, and the array without it
PopResult(pool) == pool[Len(pool)]
PopRest(pool) == SubSeq(pool, 1, Len(pool) - 1)
\* Array.prototype.push
Push(pool, element) == Append(pool, element)

\* document.createElement(elementType): a new element; its tagName
\* lower-cased is the lower-cased elementType.
CreateElement(st, elementType) ==
    [st EXCEPT !.elemTag = Append(@, ToLowerCase(elementType)),
               !.attached = Append(@, {})]

\* getElement(elementType): the state after the call, the element returned
\* and whether it came from the pool.
GetElement(st, elementType) ==
    LET pool == GetPool(st.pools, elementType)
    IN  IF PoolHasElement(pool)
        THEN [st |-> [st EXCEPT !.pools[elementType] = PopRest(pool)],
              element |-> PopResult(pool), reused |-> TRUE]
        ELSE [st |-> CreateElement(st, elementType),
              element |-> Len(st.elemTag) + 1, reused |-> FALSE]

\* The key releaseElement files an element under:
\* element.tagName.toLowerCase()
ReleaseKey(st, element) == st.elemTag[element]

\* A releaseElement that forgets pool.push(element).
ReleaseElementNoPush(st, element) == [st EXCEPT !.inUse = @ \ {element}]

\* releaseElement(element): the element is emptied and pushed on the pool of
\* its own lower-cased tag name.  Nothing is checked about where the element
\* is (in a pool already, attached to a parent, kept by a caller).
ReleaseElement(st, element) ==
    LET key == ReleaseKey(st, element)
    IN  [st EXCEPT !.attached[element] = @ \ ResetByRelease,
                   !.pools[key] = Push(GetPool(st.pools, key), element),
                   !.inUse = @ \ {element}]

\* A sequence without the occurrences of h.
Without(seq, h) == SelectSeq(seq, LAMBDA x : x # h)

\* container.appendChild(element): a node has one parent, so the element is
\* first removed from the parent it has (this container included) and then
\* becomes the last child of the container.
AppendChild(st, container, element) ==
    [st EXCEPT !.children =
        [c \in Containers |->
            IF c = container THEN Append(Without(@[c], element), element)
            ELSE Without(@[c], element)]]

\* An updateContainer that forgets container.removeChild(extraElement).
RemoveChildSkipped(st, container, element) == st

\* container.removeChild(element)
RemoveChild(st, container, element) ==
    [st EXCEPT !.children[container] = Without(@, element)]

\* The index test of updateContainer's loop (index counts from 0 in the
\* code and from 1 here): index < existingChildren.length
HasExistingChild(index, existingChildren) == index <= Len(existingChildren)

\* items.forEach((item, index) => ...) of updateContainer, from index on.  acc
\* carries the state, the elements renderItem was called on (in call order)
\* and the numbers of elements taken from the pool and created.
RECURSIVE ForEachItem(_, _, _, _, _, _)
ForEachItem(acc, container, existingChildren, items, elementType, index) ==
    IF index > Len(items) THEN acc
    ELSE LET isNew == ~HasExistingChild(index, existingChildren)
             got == IF isNew THEN GetElement(acc.st, elementType)
                    ELSE [st |-> acc.st, element |-> existingChildren[index],
                          reused |-> FALSE]
             s1 == IF isNew THEN AppendChild(got.st, container, got.element)
                   ELSE got.st
         IN  ForEachItem(
                 [st |-> s1,
                  rendered |-> Append(acc.rendered, got.element),
                  reused |-> acc.reused + (IF isNew /\ got.reused THEN 1 ELSE 0),
                  created |-> acc.created + (IF isNew /\ ~got.reused THEN 1 ELSE 0)],
                 container, existingChildren, items, elementType, index + 1)

\* The test of updateContainer's second loop:
\* existingChildren.length > items.length
HasSurplus(existingChildren, items) == Len(existingChildren) > Len(items)

\* while (existingChildren.length > items.length) { pop, releaseElement,
\* removeChild } of updateContainer.  acc carries the state and the number of
\* elements released.
RECURSIVE ReleaseSurplus(_, _, _, _)
ReleaseSurplus(acc, container, existingChildren, items) ==
    IF ~HasSurplus(existingChildren, items) THEN acc
    ELSE LET extraElement == PopResult(existingChildren)
             s1 == ReleaseElement(acc.st, extraElement)
             s2 == RemoveChild(s1, container, extraElement)
         IN  ReleaseSurplus([st |-> s2, released |-> acc.released + 1],
                            container, PopRest(existingChildren), items)

\* updateContainer(container, items, elementType, renderItem); renderItem is
\* the caller's, and the model records the elements it is called on.
UpdateContainer(st, container, items, elementType) ==
    LET existingChildren == st.children[container]
        a == ForEachItem([st |-> st, rendered |-> << >>, reused |-> 0, created |-> 0],
                         container, existingChildren, items, elementType, 1)
        b == ReleaseSurplus([st |-> a.st, released |-> 0],
                            container, existingChildren, items)
    IN  [st |-> b.st, rendered |-> a.rendered, reused |-> a.reused,
         created |-> a.created, released |-> b.released]

SetDomState(st) ==
    /\ pools' = st.pools
    /\ elemTag' = st.elemTag
    /\ children' = st.children
    /\ attached' = st.attached
    /\ hInUse' = st.inUse

\* The model's bounds on a state: elements created and pool lengths.
WithinDomBounds(st) ==
    /\ Len(st.elemTag) <= MaxHandles
    /\ \A key \in PoolKeys : Len(st.pools[key]) <= MaxPool

\* A caller calls getElement(elementType) and keeps the element.
CallGetElement(elementType) ==
    LET got == GetElement(DomState, elementType)
    IN  /\ WithinDomBounds(got.st)
        /\ SetDomState([got.st EXCEPT !.inUse = @ \cup {got.element}])
        /\ hLast' = [op |-> "getElement", elementType |-> elementType,
                     element |-> got.element, reused |-> got.reused,
                     wasInUse |-> got.element \in hInUse,
                     sizeBefore |-> Len(pools[elementType]),
                     lowerSizeBefore |-> Len(pools[ToLowerCase(elementType)])]
        /\ UNCHANGED hCalls

\* A caller calls releaseElement(element) on an element it has a reference
\* to.  hLast keeps what the getElement just before returned, when this call
\* releases that element.
CallReleaseElement(element) ==
    LET st == ReleaseElement(DomState, element)
        afterGet == hLast.op = "getElement" /\ hLast.element = element
    IN  /\ WithinDomBounds(st)
        /\ SetDomState(st)
        /\ hLast' = [op |-> "releaseElement", element |-> element,
                     afterGet |-> afterGet,
                     elementType |-> IF afterGet THEN hLast.elementType ELSE "",
                     sizeBefore |-> IF afterGet THEN hLast.sizeBefore ELSE 0,
                     lowerSizeBefore |-> IF afterGet THEN hLast.lowerSizeBefore ELSE 0]
        /\ UNCHANGED hCalls

\* A caller calls updateContainer(container, items, elementType, renderItem).
CallUpdateContainer(container, items, elementType) ==
    LET r == UpdateContainer(DomState, container, items, elementType)
    IN  /\ WithinDomBounds(r.st)
        /\ SetDomState(r.st)
        /\ hLast' = [op |-> "updateContainer", container |-> container,
                     items |-> items, elementType |-> elementType,
                     rendered |-> r.rendered, released |-> r.released]
        /\ UNCHANGED hCalls

\* A caller sets content, an attribute or a listener on an element that
\* getElement returned to it.
UseElement(element, mark) ==
    /\ element \in hInUse
    /\ attached' = [attached EXCEPT ![element] = @ \cup {mark}]
    /\ hLast' = [op |-> "use", element |-> element, mark |-> mark]
    /\ UNCHANGED <<pools, elemTag, children, hInUse, hCalls>>

\* A clearPool that drops the pools of all keys.
ClearPoolOfEveryKey(elementType) ==
    /\ pools' = NoPools
    /\ hLast' = [op |-> "clearPool", elementType |-> elementType]
    /\ UNCHANGED <<elemTag, children, attached, hInUse, hCalls>>

\* clearPool(elementType): pool.length = 0
ClearPool(elementType) ==
    /\ pools' = [pools EXCEPT ![elementType] = << >>]
    /\ hLast' = [op |-> "clearPool", elementType |-> elementType]
    /\ UNCHANGED <<elemTag, children, attached, hInUse, hCalls>>

\* clearAllPools(): this.pools = {}
ClearAllPools ==
    /\ pools' = NoPools
    /\ hLast' = [op |-> "clearAllPools"]
    /\ UNCHANGED <<elemTag, children, attached, hInUse, hCalls>>

\* The items lists of at most n items.
RECURSIVE ItemLists(_)
ItemLists(n) ==
    IF n = 0 THEN {<< >>}
    ELSE LET shorter == ItemLists(n - 1)
         IN  shorter \cup {Append(l, v) : l \in {x \in shorter : Len(x) = n - 1},
                                          v \in ItemValues}

\* updateContainer called in a run that started from empty pools and an empty
\* container and has called nothing but updateContainer: hCalls lists the
\* calls of the run with what each did.
RunUpdateContainer(container, items, elementType) ==
    LET r == UpdateContainer(DomState, container, items, elementType)
    IN  /\ Len(hCalls) < RunCalls
        /\ SetDomState(r.st)
        /\ hLast' = [op |-> "updateContainer", container |-> container,
                     items |-> items, elementType |-> elementType,
                     rendered |-> r.rendered, released |-> r.released]
        /\ hCalls' = Append(hCalls,
               [container |-> container, items |-> Len(items),
                elementType |-> elementType, created |-> r.created,
                reused |-> r.reused, released |-> r.released])

\* ========================================================================
\*                               MemoryManager
\* ========================================================================

VARIABLES
    environment,        \* the runtime the class is loaded in
    memoryThreshold,    \* this.memoryThreshold
    lowTraffic,         \* the value this.lowTraffic() returns at present
    monitorInterval,    \* this.monitorInterval: 0 for null, else a timer id
    activeTimers,       \* the setInterval timers not cleared
    nextTimer,          \* the id the next setInterval returns
    compactionScheduled,\* this.compactionScheduled
    pendingCompactions, \* setTimeout(() => this.compactHeap(), 5000) not yet fired
    hTick,              \* what the last monitor tick did
    hLastOp,            \* the method or callback that ran last
    hStopped,           \* stopMonitoring was called and startMonitoring not since
    hWindowCompactions  \* compactHeap runs since lowTraffic() last turned true

monitorVars == <<environment, memoryThreshold, lowTraffic, monitorInterval,
                 activeTimers, nextTimer, compactionScheduled, pendingCompactions,
                 hTick, hLastOp, hStopped, hWindowCompactions>>

\* node: process.memoryUsage exists, global exists, global.gc does not.
\* node --expose-gc: as node, and global.gc exists.
\* browser: window.performance.memory exists; there is no global object
\*   named global, so evaluating global.gc throws a ReferenceError.
\* unsupported: a browser without performance.memory.
Environments == {"node", "node --expose-gc", "browser", "unsupported"}
\* The thresholds the constructor is given, in the unit of the readings.
Thresholds == {-1, 0, 1}
Samples == 0..MaxSample
NoTimer == 0

\* new MemoryManager({ memoryThreshold, lowTraffic }) loaded in env
MonitorConstructed(env, threshold, isLowTraffic) ==
    /\ environment = env
    /\ memoryThreshold = threshold
    /\ lowTraffic = isLowTraffic
    /\ monitorInterval = NoTimer
    /\ activeTimers = {}
    /\ nextTimer = 1
    /\ compactionScheduled = FALSE
    /\ pendingCompactions = 0
    /\ hTick = [op |-> "none"]
    /\ hLastOp = "constructor"
    /\ hStopped = FALSE
    /\ hWindowCompactions = 0

MonitorInit ==
    \E env \in Environments, threshold \in Thresholds, isLowTraffic \in BOOLEAN :
        MonitorConstructed(env, threshold, isLowTraffic)

\* The manager as the other classes' specifications leave it: constructed
\* with the default lowTraffic, never started.
MonitorUnused == MonitorConstructed("node", 1, TRUE)

\* getMemoryUsage() without the default: whatever reading there is.
GetMemoryUsageNoDefault(env, reading) == reading

\* getMemoryUsage(): the platform's reading, or 0 where there is none.
GetMemoryUsage(env, reading) == IF env = "unsupported" THEN 0 ELSE reading

\* A tick that also fires at the threshold: memoryUsage >= this.memoryThreshold
OverThresholdOrEqual(memoryUsage, threshold) == memoryUsage >= threshold

\* The test of the tick: memoryUsage > this.memoryThreshold
OverThreshold(memoryUsage, threshold) == memoryUsage > threshold

\* Whether evaluating global.gc throws (no binding named global).
GlobalThrows(env) == env \in {"browser", "unsupported"}

\* scheduleHeapCompaction() without the test of this.compactionScheduled.
ScheduleHeapCompactionUnguarded(st) ==
    IF st.lowTraffic
    THEN [st EXCEPT !.pending = @ + 1, !.scheduled = TRUE]
    ELSE st

\* scheduleHeapCompaction(): the state after the call.
ScheduleHeapCompaction(st) ==
    IF ~st.scheduled /\ st.lowTraffic
    THEN [st EXCEPT !.pending = @ + 1, !.scheduled = TRUE]
    ELSE st

\* A tick that calls scheduleHeapCompaction() before it compares the reading.
TickResultSchedulesFirst(st, env, threshold, reading) ==
    LET memoryUsage == GetMemoryUsage(env, reading)
        first == ScheduleHeapCompaction(st)
    IN  IF OverThreshold(memoryUsage, threshold)
        THEN [st |-> first, memoryUsage |-> memoryUsage, optimized |-> TRUE,
              threw |-> GlobalThrows(env)]
        ELSE [st |-> first, memoryUsage |-> memoryUsage, optimized |-> FALSE,
              threw |-> FALSE]

\* The callback of setInterval in startMonitoring, on reading: what it calls
\* and the state it leaves.  optimizeMemory throws where global is not
\* defined, which ends the callback.
TickResult(st, env, threshold, reading) ==
    LET memoryUsage == GetMemoryUsage(env, reading)
    IN  IF OverThreshold(memoryUsage, threshold)
        THEN IF GlobalThrows(env)
             THEN [st |-> st, memoryUsage |-> memoryUsage, optimized |-> TRUE,
                   threw |-> TRUE]
             ELSE [st |-> IF st.lowTraffic THEN ScheduleHeapCompaction(st) ELSE st,
                   memoryUsage |-> memoryUsage, optimized |-> TRUE, threw |-> FALSE]
        ELSE [st |-> st, memoryUsage |-> memoryUsage, optimized |-> FALSE,
              threw |-> FALSE]

MonitorState ==
    [scheduled |-> compactionScheduled, pending |-> pendingCompactions,
     lowTraffic |-> lowTraffic]

\* startMonitoring(): this.monitorInterval = setInterval(...)
StartMonitoring ==
    /\ nextTimer <= MaxTimers
    /\ monitorInterval' = nextTimer
    /\ activeTimers' = activeTimers \cup {nextTimer}
    /\ nextTimer' = nextTimer + 1
    /\ hLastOp' = "startMonitoring"
    /\ hStopped' = FALSE
    /\ UNCHANGED <<environment, memoryThreshold, lowTraffic, compactionScheduled,
                   pendingCompactions, hTick, hWindowCompactions>>

\* stopMonitoring() that also clears the timeout of a scheduled compaction.
StopMonitoringCancelsCompaction ==
    /\ activeTimers' = IF monitorInterval # NoTimer
                       THEN activeTimers \ {monitorInterval} ELSE activeTimers
    /\ pendingCompactions' = 0
    /\ hLastOp' = "stopMonitoring"
    /\ hStopped' = TRUE
    /\ UNCHANGED <<environment, memoryThreshold, lowTraffic, monitorInterval,
                   nextTimer, compactionScheduled, hTick, hWindowCompactions>>

\* stopMonitoring() that also resets this.compactionScheduled.
StopMonitoringClearsFlag ==
    /\ activeTimers' = IF monitorInterval # NoTimer
                       THEN activeTimers \ {monitorInterval} ELSE activeTimers
    /\ compactionScheduled' = FALSE
    /\ hLastOp' = "stopMonitoring"
    /\ hStopped' = TRUE
    /\ UNCHANGED <<environment, memoryThreshold, lowTraffic, monitorInterval,
                   nextTimer, pendingCompactions, hTick, hWindowCompactions>>

\* stopMonitoring(): if (this.monitorInterval) clearInterval(this.monitorInterval)
StopMonitoring ==
    /\ activeTimers' = IF monitorInterval # NoTimer
                       THEN activeTimers \ {monitorInterval} ELSE activeTimers
    /\ hLastOp' = "stopMonitoring"
    /\ hStopped' = TRUE
    /\ UNCHANGED <<environment, memoryThreshold, lowTraffic, monitorInterval,
                   nextTimer, compactionScheduled, pendingCompactions, hTick,
                   hWindowCompactions>>

\* A timer that is not cleared fires: one run of the setInterval callback.
Tick(timer, reading) ==
    LET r == TickResult(MonitorState, environment, memoryThreshold, reading)
    IN  /\ timer \in activeTimers
        /\ compactionScheduled' = r.st.scheduled
        /\ pendingCompactions' = r.st.pending
        /\ hTick' = [op |-> "tick", timer |-> timer, sample |-> r.memoryUsage,
                     optimized |-> r.optimized, threw |-> r.threw,
                     scheduled |-> r.st.pending > pendingCompactions,
                     afterStop |-> hStopped, idle |-> lowTraffic,
                     flagBefore |-> compactionScheduled]
        /\ hLastOp' = "tick"
        /\ UNCHANGED <<environment, memoryThreshold, lowTraffic, monitorInterval,
                       activeTimers, nextTimer, hStopped, hWindowCompactions>>

\* A compactHeap that leaves this.compactionScheduled as it is.
CompactHeapKeepsFlag ==
    /\ pendingCompactions > 0
    /\ hWindowCompactions < MaxWindowCompactions
    /\ pendingCompactions' = pendingCompactions - 1
    /\ hLastOp' = "compactHeap"
    /\ hWindowCompactions' = IF lowTraffic THEN hWindowCompactions + 1
                                           ELSE hWindowCompactions
    /\ UNCHANGED <<environment, memoryThreshold, lowTraffic, monitorInterval,
                   activeTimers, nextTimer, compactionScheduled, hTick, hStopped>>

\* The timeout set by scheduleHeapCompaction fires: compactHeap().  Where
\* global is not defined the method throws before it resets the flag.
CompactHeap ==
    /\ pendingCompactions > 0
    /\ hWindowCompactions < MaxWindowCompactions
    /\ pendingCompactions' = pendingCompactions - 1
    /\ compactionScheduled' = IF GlobalThrows(environment)
                              THEN compactionScheduled ELSE FALSE
    /\ hLastOp' = "compactHeap"
    /\ hWindowCompactions' = IF lowTraffic THEN hWindowCompactions + 1
                                           ELSE hWindowCompactions
    /\ UNCHANGED <<environment, memoryThreshold, lowTraffic, monitorInterval,
                   activeTimers, nextTimer, hTick, hStopped>>

\* simulateTrafficPeriod(isLowTraffic)
SimulateTrafficPeriod(isLowTraffic) ==
    /\ lowTraffic' = isLowTraffic
    /\ hLastOp' = "simulateTrafficPeriod"
    /\ hWindowCompactions' = IF isLowTraffic THEN hWindowCompactions ELSE 0
    /\ UNCHANGED <<environment, memoryThreshold, monitorInterval, activeTimers,
                   nextTimer, compactionScheduled, pendingCompactions, hTick,
                   hStopped>>

\* ------------------------------------------------------------------------
\*                 MemoryManager.processLargeDataInChunks
\* ------------------------------------------------------------------------

VARIABLES
    chunkRun,   \* the call of processLargeDataInChunks: its promise, dataArray
                \* (by length), index, and the call on which processCallback throws
    hSlices,    \* the slices processCallback was invoked with, in call order
    hSlice      \* what the last iteration of the loop did, and the method or
                \* callback of the monitor that had run last before it

chunkVars == <<chunkRun, hSlices, hSlice>>

\* const chunkSize = 1000
ChunkSize == 1000
\* dataArray.length: around every multiple of chunkSize up to MaxChunks.
DataLengths ==
    {n \in {k * ChunkSize + d : k \in 0..MaxChunks, d \in {-1, 0, 1}} : n >= 0}
\* processCallback throws on its failAt-th call; NeverFails: on none.
NeverFails == 0
FailAts == {NeverFails} \cup (1..(MaxChunks + 1))

ChunkInit ==
    /\ chunkRun = [status |-> "not called"]
    /\ hSlices = << >>
    /\ hSlice = [op |-> "none"]

Min(a, b) == IF a < b THEN a ELSE b

\* A slice that takes one item more: dataArray.slice(index, index + chunkSize + 1)
SliceOneMore(length, index) ==
    [start |-> index, size |-> Min(index + ChunkSize + 1, length) - index]

\* dataArray.slice(index, index + chunkSize), as its first index and length
Slice(length, index) ==
    [start |-> index, size |-> Min(index + ChunkSize, length) - index]

\* processCallback wrapped in a try/catch that drops the exception.
ProcessCallbackSwallowed(failAt, call) == "returns"

\* processCallback(chunk) on its call-th call
ProcessCallback(failAt, call) == IF failAt = call THEN "throws" ELSE "returns"

\* The test after a slice without this.lowTraffic().
ChunkHintIgnoresIdle(memoryUsage, threshold, idle) ==
    OverThreshold(memoryUsage, threshold)

\* memoryUsage > this.memoryThreshold && this.lowTraffic()
ChunkHint(memoryUsage, threshold, idle) ==
    OverThreshold(memoryUsage, threshold) /\ idle

\* One iteration of the while loop, from the slice to the await: the run it
\* leaves, the slice it passed and what it did after the callback.  An
\* exception of processCallback or of optimizeMemory rejects the promise
\* the async function returned.
ChunkIteration(run, call, env, threshold, idle, reading) ==
    LET memoryUsage == GetMemoryUsage(env, reading)
        hint == ChunkHint(memoryUsage, threshold, idle)
    IN  IF ProcessCallback(run.failAt, call) = "throws"
        THEN [run |-> [run EXCEPT !.status = "rejected", !.error = "processCallback"],
              did |-> [op |-> "slice", call |-> call, returned |-> FALSE]]
        ELSE [run |-> [run EXCEPT
                          !.index = @ + ChunkSize,
                          !.status = IF hint /\ GlobalThrows(env)
                                     THEN "rejected" ELSE "suspended",
                          !.error = IF hint /\ GlobalThrows(env)
                                    THEN "ReferenceError" ELSE "none"],
              did |-> [op |-> "slice", call |-> call, returned |-> TRUE,
                       sample |-> memoryUsage, idle |-> idle, hinted |-> hint]]

\* A loop that awaits after every second slice only.
ChunkLoopTwoSlices(run, slices, env, threshold, idle, reading) ==
    IF run.index < run.length
    THEN LET r == ChunkIteration(run, Len(slices) + 1, env, threshold, idle, reading)
             one == Append(slices, Slice(run.length, run.index))
         IN  IF r.run.status = "suspended" /\ r.run.index < r.run.length
             THEN LET q == ChunkIteration(r.run, Len(one) + 1, env, threshold,
                                          idle, reading)
                  IN  [run |-> q.run,
                       slices |-> Append(one, Slice(r.run.length, r.run.index)),
                       did |-> q.did]
             ELSE [run |-> r.run, slices |-> one, did |-> r.did]
    ELSE [run |-> [run EXCEPT !.status = "resolved"], slices |-> slices,
          did |-> [op |-> "return"]]

\* The loop from its test: one more iteration, or the end of the function,
\* which resolves the promise.
ChunkLoop(run, slices, env, threshold, idle, reading) ==
    IF run.index < run.length
    THEN LET r == ChunkIteration(run, Len(slices) + 1, env, threshold, idle, reading)
         IN  [run |-> r.run,
              slices |-> Append(slices, Slice(run.length, run.index)),
              did |-> r.did]
    ELSE [run |-> [run EXCEPT !.status = "resolved"], slices |-> slices,
          did |-> [op |-> "return"]]

\* processLargeDataInChunks(dataArray, processCallback): the async function
\* runs up to its first await.
ProcessLargeDataInChunks(length, failAt, reading) ==
    LET r == ChunkLoop([status |-> "suspended", length |-> length, index |-> 0,
                        failAt |-> failAt, error |-> "none"],
                       << >>, environment, memoryThreshold, lowTraffic, reading)
    IN  /\ chunkRun.status = "not called"
        /\ chunkRun' = r.run
        /\ hSlices' = r.slices
        /\ hSlice' = r.did @@ [after |-> hLastOp]

\* The timer of setTimeout(resolve, 0) has fired: the function goes on
\* after its await.
ChunkResume(reading) ==
    LET r == ChunkLoop(chunkRun, hSlices, environment, memoryThreshold,
                       lowTraffic, reading)
    IN  /\ chunkRun.status = "suspended"
        /\ chunkRun' = r.run
        /\ hSlices' = r.slices
        /\ hSlice' = r.did @@ [after |-> hLastOp]

\* ========================================================================
\*                              MemoryProfiler
\* ========================================================================

VARIABLES
    learnedPatterns,    \* this.learnedPatterns: the series of each own key
    hLearn,             \* what the last learnMemoryPattern call did
    hAverage,           \* the last getAverageMemoryUsage call and its result
    profilerEnvironment,\* the runtime the profiler is loaded in
    profilerOperations, \* this.operations: the record of each token
    nextOperationId,    \* the token the next Symbol() stands for
    memoryHistory,      \* this.memoryHistory, by the memoryUsage of its entries
    hMonitor            \* what the last registerOperation, monitorMemory or
                        \* completeOperation call did

registryVars == <<profilerEnvironment, profilerOperations, nextOperationId,
                  memoryHistory, hMonitor>>
profilerVars == <<learnedPatterns, hLearn, hAverage, registryVars>>

\* The operation names calls are made with.  this.learnedPatterns is an
\* object literal: the keys it inherits from Object.prototype ("constructor",
\* "toString", ...) read as truthy values that are not arrays.
Labels == {"A", "B", "constructor"}
InheritedKeys == {"constructor"}
OwnLabels == Labels \ InheritedKeys
\* Samples in bytes.
ByteSamples == {100, 200}
\* The series getAverageMemoryUsage is called with.
AverageSamples == {100, 200, 300}
AverageSeries == UNION {[1..n -> AverageSamples] : n \in 0..MaxAverageLen}

\* this.learnedPatterns = {}: no own key; a key not yet set reads as << >>
\* here, which the method replaces by [] before it pushes.
\* node: process.memoryUsage exists.  browser: performance.memory exists.
\* unsupported: neither does.
ProfilerEnvironments == {"node", "browser", "unsupported"}
\* The tokens Symbol() returns, in the order of the calls.
Tokens == 1..MaxTokens
\* this.operations.get(operationId) of a token the map has no entry for
NoRecord == [present |-> FALSE, operationName |-> "", memoryUsage |-> Undefined]
\* The callback argument: left out, a function that returns, one that throws.
Callbacks == {"none", "returns", "throws"}

\* new MemoryProfiler() loaded in env
ProfilerConstructed(env) ==
    /\ learnedPatterns = [l \in OwnLabels |-> << >>]
    /\ hLearn = [op |-> "none"]
    /\ hAverage = [op |-> "none"]
    /\ profilerEnvironment = env
    /\ profilerOperations = [t \in Tokens |-> NoRecord]
    /\ nextOperationId = 1
    /\ memoryHistory = << >>
    /\ hMonitor = [op |-> "none"]

\* The profiler as the other classes' specifications leave it.
ProfilerInit == ProfilerConstructed("node")

\* The profiler in any of the runtimes.
ProfilerAnywhere == \E env \in ProfilerEnvironments : ProfilerConstructed(env)

\* memoryUsages.reduce((sum, usage) => sum + usage, 0)
RECURSIVE TotalUsage(_)
TotalUsage(memoryUsages) ==
    IF memoryUsages = << >> THEN 0
    ELSE Head(memoryUsages) + TotalUsage(Tail(memoryUsages))

\* 1024 * 1024, the divisor of getAverageMemoryUsage
BytesPerMB == 1024 * 1024

\* An average converted to kilobytes: divided by 1024 only.
GetAverageMemoryUsageInKB(memoryUsages) ==
    [num |-> TotalUsage(memoryUsages), den |-> Len(memoryUsages) * 1024]

\* getAverageMemoryUsage(memoryUsages): (totalUsage / length) / (1024 * 1024),
\* as the fraction num / den; den = 0 stands for NaN (0 / 0).
GetAverageMemoryUsage(memoryUsages) ==
    [num |-> TotalUsage(memoryUsages), den |-> Len(memoryUsages) * BytesPerMB]

\* The test of the summary with >= in place of >.
PatternLearnedAtThreshold(series) == Len(series) >= 5

\* this.learnedPatterns[operationName].length > 5
PatternLearned(series) == Len(series) > 5

\* learnMemoryPattern(operationName, memoryUsage) on patterns: the patterns
\* it leaves and what it did.  On a key the object inherits, the value read
\* is not an array and .push(...) raises a TypeError before anything is
\* stored.
LearnResult(patterns, operationName, memoryUsage) ==
    IF operationName \in InheritedKeys
    THEN [patterns |-> patterns,
          did |-> [op |-> "learnMemoryPattern", operationName |-> operationName,
                   memoryUsage |-> memoryUsage, before |-> patterns,
                   threw |-> TRUE, emitted |-> FALSE]]
    ELSE LET series == Append(patterns[operationName], memoryUsage)
         IN  [patterns |-> [patterns EXCEPT ![operationName] = series],
              did |-> IF PatternLearned(series)
                      THEN [op |-> "learnMemoryPattern",
                            operationName |-> operationName,
                            memoryUsage |-> memoryUsage,
                            before |-> patterns,
                            threw |-> FALSE, emitted |-> TRUE,
                            avgUsage |-> GetAverageMemoryUsage(series)]
                      ELSE [op |-> "learnMemoryPattern",
                            operationName |-> operationName,
                            memoryUsage |-> memoryUsage,
                            before |-> patterns,
                            threw |-> FALSE, emitted |-> FALSE]]

\* learnMemoryPattern(operationName, memoryUsage) called by a caller
LearnMemoryPattern(operationName, memoryUsage) ==
    LET r == LearnResult(learnedPatterns, operationName, memoryUsage)
    IN  /\ operationName \in OwnLabels
              => Len(learnedPatterns[operationName]) < MaxSeries
        /\ learnedPatterns' = r.patterns
        /\ hLearn' = r.did
        /\ UNCHANGED <<hAverage, registryVars>>

\* getAverageMemoryUsage(memoryUsages) called by a caller
CallGetAverageMemoryUsage(memoryUsages) ==
    /\ hAverage' = [op |-> "getAverageMemoryUsage", memoryUsages |-> memoryUsages,
                    result |-> GetAverageMemoryUsage(memoryUsages)]
    /\ UNCHANGED <<learnedPatterns, hLearn, registryVars>>

\* this.alertThreshold = 150 * 1024 * 1024
AlertThreshold == 150 * 1024 * 1024
\* The readings of the heap in use, in bytes: at the threshold and above it.
ProfilerReadings == {AlertThreshold, AlertThreshold + 1}

ProfilerState ==
    [operations |-> profilerOperations, patterns |-> learnedPatterns,
     history |-> memoryHistory, learn |-> hLearn]

\* The map, the series and the history of the profiler.
ProfilerData ==
    [operations |-> profilerOperations, patterns |-> learnedPatterns,
     history |-> memoryHistory]

\* triggerMemoryAlert(operationName, memoryUsage): console.warn only
TriggerMemoryAlert(st, operationName, memoryUsage) == st

\* memoryUsage > this.alertThreshold
ExceedsAlertThreshold(memoryUsage) == memoryUsage > AlertThreshold

\* What a monitorMemory call that returns at once did.
NotSampled(read, reading) ==
    [read |-> read, memoryUsage |-> IF read THEN reading ELSE Undefined,
     sampled |-> FALSE, threw |-> "none", called |-> FALSE, alerted |-> FALSE]

\* A monitorMemory without the return of line 92: where there is no reading
\* it goes on with memoryUsage undefined.
MonitorMemoryWithoutReturn(st, env, operationId, callback, reading) ==
    LET memoryUsage == IF env = "unsupported" THEN Undefined ELSE reading
        operation == st.operations[operationId]
        recorded == [st EXCEPT !.operations[operationId].memoryUsage = memoryUsage]
        learnt == LearnResult(st.patterns, operation.operationName, memoryUsage)
        learned == [recorded EXCEPT !.patterns = learnt.patterns,
                                    !.learn = learnt.did]
        stored == [learned EXCEPT !.history = Append(@, memoryUsage)]
        alert == ExceedsAlertThreshold(memoryUsage)
    IN  IF ~operation.present
        THEN [st |-> st, did |-> NotSampled(env # "unsupported", reading)]
        ELSE IF learnt.did.threw
        THEN [st |-> learned,
              did |-> [read |-> TRUE, memoryUsage |-> memoryUsage, sampled |-> TRUE,
                       threw |-> "TypeError", called |-> FALSE, alerted |-> FALSE]]
        ELSE IF callback = "throws"
        THEN [st |-> learned,
              did |-> [read |-> TRUE, memoryUsage |-> memoryUsage, sampled |-> TRUE,
                       threw |-> "callback", called |-> TRUE, alerted |-> FALSE]]
        ELSE [st |-> stored,
              did |-> [read |-> TRUE, memoryUsage |-> memoryUsage, sampled |-> TRUE,
                       threw |-> "none", called |-> callback # "none",
                       alerted |-> alert, atAlert |-> stored]]

\* monitorMemory(operationId, callback) on st where the heap in use reads
\* reading: the state it leaves and what it did.  An exception of
\* learnMemoryPattern or of the callback ends the method where it is raised.
MonitorMemory(st, env, operationId, callback, reading) ==
    LET operation == st.operations[operationId]
        recorded == [st EXCEPT !.operations[operationId].memoryUsage = reading]
        learnt == LearnResult(st.patterns, operation.operationName, reading)
        learned == [recorded EXCEPT !.patterns = learnt.patterns,
                                    !.learn = learnt.did]
        stored == [learned EXCEPT !.history = Append(@, reading)]
        alert == ExceedsAlertThreshold(reading)
    IN  IF env = "unsupported" THEN [st |-> st, did |-> NotSampled(FALSE, reading)]
        ELSE IF ~operation.present
        THEN [st |-> st, did |-> NotSampled(TRUE, reading)]
        ELSE IF learnt.did.threw
        THEN [st |-> learned,
              did |-> [read |-> TRUE, memoryUsage |-> reading, sampled |-> TRUE,
                       threw |-> "TypeError", called |-> FALSE, alerted |-> FALSE]]
        ELSE IF callback = "throws"
        THEN [st |-> learned,
              did |-> [read |-> TRUE, memoryUsage |-> reading, sampled |-> TRUE,
                       threw |-> "callback", called |-> TRUE, alerted |-> FALSE]]
        ELSE [st |-> IF alert
                     THEN TriggerMemoryAlert(stored, operation.operationName, reading)
                     ELSE stored,
              did |-> [read |-> TRUE, memoryUsage |-> reading, sampled |-> TRUE,
                       threw |-> "none", called |-> callback # "none",
                       alerted |-> alert, atAlert |-> stored]]

SetProfilerState(st) ==
    /\ profilerOperations' = st.operations
    /\ learnedPatterns' = st.patterns
    /\ memoryHistory' = st.history
    /\ hLearn' = st.learn

\* The model's bound on a state: the samples in the series.
RECURSIVE TotalSamples(_, _)
TotalSamples(patterns, labels) ==
    IF labels = {} THEN 0
    ELSE LET l == CHOOSE x \in labels : TRUE
         IN  Len(patterns[l]) + TotalSamples(patterns, labels \ {l})

WithinProfilerBounds(st) == TotalSamples(st.patterns, OwnLabels) <= MaxProfilerSamples

\* registerOperation(operationName, callback): a new token, its record, a
\* first monitorMemory; the token is returned unless monitorMemory threw.
RegisterOperation(operationName, callback, reading) ==
    LET operationId == nextOperationId
        set == [ProfilerState EXCEPT
                   !.operations[operationId] =
                       [present |-> TRUE, operationName |-> operationName,
                        memoryUsage |-> Undefined]]
        r == MonitorMemory(set, profilerEnvironment, operationId, callback, reading)
    IN  /\ nextOperationId <= MaxTokens
        /\ WithinProfilerBounds(r.st)
        /\ SetProfilerState(r.st)
        /\ nextOperationId' = nextOperationId + 1
        /\ hMonitor' = [op |-> "registerOperation", operationId |-> operationId,
                        operationName |-> operationName, callback |-> callback,
                        did |-> r.did,
                        before |-> ProfilerData,
                        returned |-> IF r.did.threw = "none"
                                     THEN operationId ELSE Undefined]
        /\ UNCHANGED <<hAverage, profilerEnvironment>>

\* monitorMemory(operationId, callback) called by a caller
CallMonitorMemory(operationId, callback, reading) ==
    LET r == MonitorMemory(ProfilerState, profilerEnvironment, operationId,
                           callback, reading)
    IN  /\ WithinProfilerBounds(r.st)
        /\ SetProfilerState(r.st)
        /\ hMonitor' = [op |-> "monitorMemory", operationId |-> operationId,
                        callback |-> callback, did |-> r.did,
                        before |-> ProfilerData]
        /\ UNCHANGED <<hAverage, profilerEnvironment, nextOperationId>>

\* A completeOperation that empties the map: this.operations.clear()
CompleteOperationClearsAll(operationId) ==
    /\ profilerOperations' = [t \in Tokens |-> NoRecord]
    /\ hMonitor' = [op |-> "completeOperation", operationId |-> operationId,
                    found |-> profilerOperations[operationId].present,
                    before |-> ProfilerData]
    /\ UNCHANGED <<learnedPatterns, hLearn, hAverage, profilerEnvironment,
                   nextOperationId, memoryHistory>>

\* completeOperation(operationId): this.operations.delete(operationId) if
\* the map has the token
CompleteOperation(operationId) ==
    /\ profilerOperations' = [profilerOperations EXCEPT ![operationId] = NoRecord]
    /\ hMonitor' = [op |-> "completeOperation", operationId |-> operationId,
                    found |-> profilerOperations[operationId].present,
                    before |-> ProfilerData]
    /\ UNCHANGED <<learnedPatterns, hLearn, hAverage, profilerEnvironment,
                   nextOperationId, memoryHistory>>

\* ========================================================================
\*                              Specifications
\* ========================================================================

vars == <<asyncVars, domVars, monitorVars, chunkVars, profilerVars>>

Init == AsyncInit /\ DomInit /\ MonitorInit /\ ChunkInit /\ ProfilerInit

AsyncNext ==
    \/ \E e \in AsyncElements \cup {NoElement}, cf \in CleanupKinds :
          RegisterAsyncOperation(e, cf) /\ UNCHANGED <<domVars, monitorVars, chunkVars, profilerVars>>
    \/ \E id \in OpIds, outcome \in {"fulfilled", "rejected"} :
          Settle(id, outcome) /\ UNCHANGED <<domVars, monitorVars, chunkVars, profilerVars>>
    \/ \E id \in OpIds : ThenReaction(id) /\ UNCHANGED <<domVars, monitorVars, chunkVars, profilerVars>>
    \/ \E id \in OpIds : CatchReaction(id) /\ UNCHANGED <<domVars, monitorVars, chunkVars, profilerVars>>
    \/ ClearAllOperations /\ UNCHANGED <<domVars, monitorVars, chunkVars, profilerVars>>

\* The calls and jobs that run cleanupOperation (the .catch job only logs).
CleanupNext ==
    \/ \E e \in AsyncElements \cup {NoElement}, cf \in CleanupKinds :
          /\ RegisterAsyncOperation(e, cf)
          /\ UNCHANGED <<domVars, monitorVars, chunkVars, profilerVars>>
    \/ \E id \in OpIds, outcome \in {"fulfilled", "rejected"} :
          /\ Settle(id, outcome)
          /\ UNCHANGED <<domVars, monitorVars, chunkVars, profilerVars>>
    \/ \E id \in OpIds :
          /\ ThenReaction(id)
          /\ UNCHANGED <<domVars, monitorVars, chunkVars, profilerVars>>
    \/ /\ ClearAllOperations
       /\ UNCHANGED <<domVars, monitorVars, chunkVars, profilerVars>>

DomNext ==
    \/ \E t \in Tags : CallGetElement(t) /\ UNCHANGED <<asyncVars, monitorVars, chunkVars, profilerVars>>
    \/ \E h \in 1..Len(elemTag) :
          CallReleaseElement(h) /\ UNCHANGED <<asyncVars, monitorVars, chunkVars, profilerVars>>
    \/ \E c \in Containers, items \in ItemLists(MaxItems), t \in Tags :
          CallUpdateContainer(c, items, t) /\ UNCHANGED <<asyncVars, monitorVars, chunkVars, profilerVars>>
    \/ \E t \in PoolKeys : ClearPool(t) /\ UNCHANGED <<asyncVars, monitorVars, chunkVars, profilerVars>>
    \/ ClearAllPools /\ UNCHANGED <<asyncVars, monitorVars, chunkVars, profilerVars>>

\* Callers that acquire elements, use them and release the elements they hold.
SanitizeNext ==
    \/ \E t \in Tags :
          CallGetElement(t) /\ UNCHANGED <<asyncVars, monitorVars, chunkVars, profilerVars>>
    \/ \E h \in hInUse, mark \in Marks :
          UseElement(h, mark) /\ UNCHANGED <<asyncVars, monitorVars, chunkVars, profilerVars>>
    \/ \E h \in hInUse :
          CallReleaseElement(h) /\ UNCHANGED <<asyncVars, monitorVars, chunkVars, profilerVars>>

RunNext ==
    \E c \in Containers, items \in ItemLists(RunItems), t \in Tags :
        RunUpdateContainer(c, items, t) /\ UNCHANGED <<asyncVars, monitorVars, chunkVars, profilerVars>>

MonitorNext ==
    \/ StartMonitoring /\ UNCHANGED <<asyncVars, domVars, chunkVars, profilerVars>>
    \/ StopMonitoring /\ UNCHANGED <<asyncVars, domVars, chunkVars, profilerVars>>
    \/ \E t \in 1..MaxTimers, reading \in Samples :
          Tick(t, reading) /\ UNCHANGED <<asyncVars, domVars, chunkVars, profilerVars>>
    \/ CompactHeap /\ UNCHANGED <<asyncVars, domVars, chunkVars, profilerVars>>
    \/ \E b \in BOOLEAN : SimulateTrafficPeriod(b) /\ UNCHANGED <<asyncVars, domVars, chunkVars, profilerVars>>

\* The timeout set by scheduleHeapCompaction fires.
CompactionTimerFires ==
    CompactHeap /\ UNCHANGED <<asyncVars, domVars, chunkVars, profilerVars>>

\* The monitor's calls and callbacks, with the bound on compactHeap runs
\* put on the ticks, so that a scheduled compaction is never held back by it.
MonitorLiveNext ==
    \/ StartMonitoring /\ UNCHANGED <<asyncVars, domVars, chunkVars, profilerVars>>
    \/ StopMonitoring /\ UNCHANGED <<asyncVars, domVars, chunkVars, profilerVars>>
    \/ \E t \in 1..MaxTimers, reading \in Samples :
          /\ hWindowCompactions + pendingCompactions < MaxWindowCompactions
          /\ Tick(t, reading)
          /\ UNCHANGED <<asyncVars, domVars, chunkVars, profilerVars>>
    \/ CompactionTimerFires
    \/ \E b \in BOOLEAN :
          SimulateTrafficPeriod(b) /\ UNCHANGED <<asyncVars, domVars, chunkVars, profilerVars>>

\* Calls of processLargeDataInChunks while the traffic changes.
ChunkNext ==
    \/ \E length \in DataLengths, failAt \in FailAts, reading \in Samples :
          /\ ProcessLargeDataInChunks(length, failAt, reading)
          /\ UNCHANGED <<asyncVars, domVars, monitorVars, profilerVars>>
    \/ \E reading \in Samples :
          /\ ChunkResume(reading)
          /\ UNCHANGED <<asyncVars, domVars, monitorVars, profilerVars>>
    \/ \E b \in BOOLEAN :
          /\ SimulateTrafficPeriod(b)
          /\ UNCHANGED <<asyncVars, domVars, chunkVars, profilerVars>>

\* The timer of setTimeout(resolve, 0) of a suspended call fires.
ChunkTimerFires ==
    \E reading \in Samples :
        /\ ChunkResume(reading)
        /\ UNCHANGED <<asyncVars, domVars, monitorVars, profilerVars>>

\* One call of processLargeDataInChunks while the monitor, started once,
\* runs: the tasks the event loop takes one at a time.
YieldNext ==
    \/ \E length \in DataLengths, failAt \in FailAts, reading \in Samples :
          /\ ProcessLargeDataInChunks(length, failAt, reading)
          /\ UNCHANGED <<asyncVars, domVars, monitorVars, profilerVars>>
    \/ \E reading \in Samples :
          /\ ChunkResume(reading)
          /\ UNCHANGED <<asyncVars, domVars, monitorVars, profilerVars>>
    \/ /\ monitorInterval = NoTimer
       /\ StartMonitoring
       /\ UNCHANGED <<asyncVars, domVars, chunkVars, profilerVars>>
    \/ \E t \in 1..MaxTimers, reading \in Samples :
          Tick(t, reading) /\ UNCHANGED <<asyncVars, domVars, chunkVars, profilerVars>>
    \/ CompactHeap /\ UNCHANGED <<asyncVars, domVars, chunkVars, profilerVars>>

LearnNext ==
    \E operationName \in Labels, memoryUsage \in ByteSamples :
        /\ LearnMemoryPattern(operationName, memoryUsage)
        /\ UNCHANGED <<asyncVars, domVars, monitorVars, chunkVars>>

AverageNext ==
    \E memoryUsages \in AverageSeries :
        /\ CallGetAverageMemoryUsage(memoryUsages)
        /\ UNCHANGED <<asyncVars, domVars, monitorVars, chunkVars>>

\* The names operations are registered under: one the object has no key
\* for and one it inherits.
RegisteredNames == {"A"} \cup InheritedKeys

\* Operations registered, sampled again and completed.
ProfilerNext ==
    \/ \E operationName \in RegisteredNames, callback \in Callbacks, reading \in ProfilerReadings :
          /\ RegisterOperation(operationName, callback, reading)
          /\ UNCHANGED <<asyncVars, domVars, monitorVars, chunkVars>>
    \/ \E operationId \in Tokens, callback \in Callbacks, reading \in ProfilerReadings :
          /\ CallMonitorMemory(operationId, callback, reading)
          /\ UNCHANGED <<asyncVars, domVars, monitorVars, chunkVars>>
    \/ \E operationId \in Tokens :
          /\ CompleteOperation(operationId)
          /\ UNCHANGED <<asyncVars, domVars, monitorVars, chunkVars>>

Next ==
    \/ AsyncNext \/ DomNext \/ MonitorNext \/ ChunkNext
    \/ LearnNext \/ AverageNext \/ ProfilerNext

Spec == Init /\ [][Next]_vars

\* All three classes constructed, the memory manager with its defaults.
InitDefault ==
    AsyncInit /\ DomInit /\ MonitorUnused /\ ChunkInit /\ ProfilerInit

\* Each class on its own: the classes share no state.
SpecAsync == InitDefault /\ [][AsyncNext]_vars
SpecCleanup == InitDefault /\ [][CleanupNext]_vars
SpecDom == InitDefault /\ [][DomNext]_vars
SpecSanitize == InitDefault /\ [][SanitizeNext]_vars
SpecMonitor == Init /\ [][MonitorNext]_vars
\* The event loop runs every timeout that was set in the end.
SpecMonitorFair == Init /\ [][MonitorLiveNext]_vars /\ WF_vars(CompactionTimerFires)
SpecChunks == Init /\ [][ChunkNext]_vars
\* The event loop runs every zero-delay timer in the end.
SpecChunksFair == Init /\ [][ChunkNext]_vars /\ WF_vars(ChunkTimerFires)
\* The manager with its default lowTraffic, in any of the runtimes.
InitYield ==
    /\ AsyncInit /\ DomInit /\ ChunkInit /\ ProfilerInit
    /\ \E env \in Environments : MonitorConstructed(env, 1, TRUE)
SpecYield == InitYield /\ [][YieldNext]_vars
SpecLearner == InitDefault /\ [][LearnNext]_vars
SpecAverage == InitDefault /\ [][AverageNext]_vars
\* The profiler in any runtime.
InitProfiler ==
    AsyncInit /\ DomInit /\ MonitorUnused /\ ChunkInit /\ ProfilerAnywhere
SpecProfiler == InitProfiler /\ [][ProfilerNext]_vars
\* Runs of updateContainer calls from empty pools and an empty container.
SpecRun == InitDefault /\ [][RunNext]_vars

\* ========================================================================
\*                                 Claims
\* ========================================================================

\* C1: once the task of a binding has settled, fulfilled or rejected, and the
\* reactions registered on its promise have run, the binding is absent from
\* the operations map and releaseElement has run for it exactly once.
C1_SettledBindingCleanedOnce ==
    \A id \in OpIds :
        thenPromise[id] = "handled" =>
            /\ ~HasOperation(operations, id)
            /\ hRelease[id] = 1

\* C2: when the cleanupFunction of a binding has thrown during a cleanup, by
\* settlement or by clearAllOperations, the element has still been released
\* and the binding is removed from the operations map.
C2_TeardownFailureStillReleases ==
    \A id \in OpIds :
        hTeardownThrew[id] =>
            /\ hRelease[id] >= 1
            /\ ~HasOperation(operations, id)

\* C3: getElement never returns an element that a caller got from getElement
\* before and has not released since.
C3_AcquireNeverReturnsElementInUse ==
    hLast.op = "getElement" => ~hLast.wasInUse

\* Whether the element is attached to one of the containers.
IsChild(element) ==
    \E c \in Containers : \E i \in 1..Len(children[c]) : children[c][i] = element

\* C4: no element occupies more than one slot of the pools, and no element is
\* in a pool while a caller holds it or while it is a child of a container.
C4_PooledElementsNotInUse ==
    \A h \in 1..Len(elemTag) :
        /\ Slots(pools, h) <= 1
        /\ Slots(pools, h) >= 1 => (h \notin hInUse /\ ~IsChild(h))

\* C5: updateContainer leaves the container with exactly items.length
\* children and has called renderItem once per index, in index order, each
\* time on the element at that position of the container.
C5_ReconcileRendersEachPosition ==
    hLast.op = "updateContainer" =>
        /\ Len(children[hLast.container]) = Len(hLast.items)
        /\ hLast.rendered = children[hLast.container]

\* The children of position n + 1 on, last first: the order in which
\* updateContainer releases them.
RECURSIVE SurplusOf(_, _)
SurplusOf(kids, n) ==
    IF Len(kids) <= n THEN << >>
    ELSE <<kids[Len(kids)]>> \o SurplusOf(SubSeq(kids, 1, Len(kids) - 1), n)
\* A step of updateContainer on a container with more children than items.
SurplusStep ==
    /\ hLast'.op = "updateContainer"
    /\ Len(children[hLast'.container]) > Len(hLast'.items)

\* C6 as stated: updateContainer on a container with more children than items
\* detaches the children beyond items.length, and the pool of the elementType
\* passed grows by exactly the number of those children.
C6_SurplusGrowsPassedTagPool ==
    [][SurplusStep =>
        LET c == hLast'.container
            n == Len(hLast'.items)
            t == hLast'.elementType
        IN  /\ children'[c] = SubSeq(children[c], 1, n)
            /\ Len(pools'[t]) = Len(pools[t]) + (Len(children[c]) - n)]_vars

\* C6 amended: updateContainer on a container with more children than items
\* detaches the children beyond items.length and pushes each, last child
\* first, on the pool of its own lower-cased tag name; the pools grow by the
\* number of those children in total.
C6_SurplusGrowsOwnTagPools ==
    [][SurplusStep =>
        LET c == hLast'.container
            n == Len(hLast'.items)
            surplus == SurplusOf(children[c], n)
        IN  /\ children'[c] = SubSeq(children[c], 1, n)
            /\ \A key \in PoolKeys :
                  pools'[key] = pools[key] \o SelectSeq(surplus, LAMBDA h : elemTag[h] = key)
            /\ TotalPoolSize(pools') = TotalPoolSize(pools) + (Len(children[c]) - n)
            /\ hLast'.released = Len(children[c]) - n]_vars

C6_Witness ==
    /\ hLast.op = "updateContainer"
    /\ hLast.released > 0
    /\ Len(children[hLast.container]) = Len(hLast.items)
    /\ TotalPoolSize(pools) >= hLast.released

\* The run of the example: three updateContainer calls on one container with
\* one elementType and 4, 2 and 3 items.
ExampleRun ==
    /\ Len(hCalls) >= 3
    /\ hCalls[1].items = 4 /\ hCalls[2].items = 2 /\ hCalls[3].items = 3
    /\ hCalls[2].container = hCalls[1].container
    /\ hCalls[3].container = hCalls[1].container
    /\ hCalls[2].elementType = hCalls[1].elementType
    /\ hCalls[3].elementType = hCalls[1].elementType

\* C7 as stated: from empty pools and an empty container, the 4-item call
\* creates 4 elements and reuses none, the 2-item call releases 2, and the
\* 3-item call reuses 2 pooled elements and creates 1.
C7_ExampleAsStated ==
    ExampleRun =>
        /\ hCalls[1].created = 4 /\ hCalls[1].reused = 0
        /\ hCalls[2].released = 2
        /\ hCalls[3].reused = 2 /\ hCalls[3].created = 1

\* C7 amended: from empty pools and an empty container, the 4-item call
\* creates 4 elements and reuses none, the 2-item call releases 2, and the
\* 3-item call keeps the 2 children, and for a lower-case elementType takes
\* 1 element from the pool and creates none, leaving 1 element in the pool.
C7_ExampleAsTheCodeRuns ==
    ExampleRun =>
        /\ hCalls[1].created = 4 /\ hCalls[1].reused = 0 /\ hCalls[1].released = 0
        /\ hCalls[2].released = 2 /\ hCalls[2].created = 0 /\ hCalls[2].reused = 0
        /\ hCalls[3].released = 0
        /\ hCalls[3].reused + hCalls[3].created = 1
        /\ ToLowerCase(hCalls[1].elementType) = hCalls[1].elementType =>
              /\ hCalls[3].reused = 1 /\ hCalls[3].created = 0
              /\ Len(hCalls) = 3 => Len(pools[hCalls[1].elementType]) = 1

C7_Witness ==
    /\ ExampleRun
    /\ Len(hCalls) = 3
    /\ hCalls[1].elementType = "div"
    /\ Len(children[hCalls[1].container]) = 3

\* C8 as stated: getElement(elementType) and then releaseElement of the
\* element returned leave the pool of elementType as long as it was.
C8_RoundTripKeepsPoolSize ==
    (hLast.op = "releaseElement" /\ hLast.afterGet) =>
        Len(pools[hLast.elementType]) = hLast.sizeBefore

\* C8 amended: getElement(elementType) and then releaseElement of the element
\* returned leave the pool of elementType as long as it was when it was not
\* empty; when it was empty, the element created is pushed on the pool of
\* its lower-cased tag name, which is one longer than it was (so the pool of
\* a lower-case elementType goes from 0 to 1 element).
C8_RoundTripGrowsEmptyPool ==
    (hLast.op = "releaseElement" /\ hLast.afterGet) =>
        IF hLast.sizeBefore > 0
        THEN Len(pools[hLast.elementType]) = hLast.sizeBefore
        ELSE /\ Len(pools[ToLowerCase(hLast.elementType)]) = hLast.lowerSizeBefore + 1
             /\ ToLowerCase(hLast.elementType) # hLast.elementType =>
                   Len(pools[hLast.elementType]) = 0

C8_Witness ==
    /\ hLast.op = "releaseElement"
    /\ hLast.afterGet
    /\ hLast.sizeBefore = 0
    /\ hLast.elementType = "div"
    /\ Len(pools["div"]) = 1

\* C9: getElement(elementType) takes the last element pushed on the pool of
\* elementType when the pool is not empty, an element no caller has got again
\* since, and creates an element only when the pool is empty; and an element
\* got by getElement(elementType) and released is the element the very next
\* getElement(elementType) returns.
C9_ReleasedElementIsNextAcquired ==
    [][hLast'.op = "getElement" =>
        LET t == hLast'.elementType
        IN  /\ hLast'.reused <=> Len(pools[t]) > 0
            /\ hLast'.reused => hLast'.element = pools[t][Len(pools[t])]
            /\ hLast'.reused => ~hLast'.wasInUse
            /\ (hLast.op = "releaseElement" /\ hLast.afterGet /\ hLast.elementType = t)
                  => hLast'.element = hLast.element]_vars

C11_CompactionOncePerIdleWindow == hWindowCompactions <= 1

\* C11 amended: at most one deferred compaction is pending at any time, and
\* while one is pending the flag is set, so that over-threshold ticks
\* schedule no other one.
C11_OnePendingCompaction ==
    /\ pendingCompactions <= 1
    /\ pendingCompactions = 1 => compactionScheduled

\* An over-threshold tick in a low-traffic period that scheduled nothing,
\* because a compaction is pending.
C11_Witness ==
    /\ hLastOp = "tick"
    /\ hTick.optimized
    /\ ~hTick.threw
    /\ ~hTick.scheduled
    /\ lowTraffic
    /\ pendingCompactions = 1

\* C12: no monitor tick runs while the monitor is stopped, that is after a
\* stopMonitoring call that no startMonitoring call has followed.
C12_NoTickAfterStop == hTick.op = "tick" => ~hTick.afterStop

\* C13 as stated: in the state right after stopMonitoring returns, the
\* compaction-scheduled flag is false.
C13_StopClearsScheduledFlag ==
    hLastOp = "stopMonitoring" => ~compactionScheduled

\* C13 amended: right after stopMonitoring returns, the timer held in
\* monitorInterval is cancelled and the flag is still set if a deferred
\* compaction has been scheduled and has not run.
C13_StopKeepsScheduledFlag ==
    hLastOp = "stopMonitoring" =>
        /\ monitorInterval \notin activeTimers
        /\ pendingCompactions > 0 => compactionScheduled

C13_Witness ==
    /\ hLastOp = "stopMonitoring"
    /\ monitorInterval # NoTimer
    /\ pendingCompactions > 0
    /\ compactionScheduled

\* C14 as stated: a tick in an environment without a heap reading requests
\* no collection hint and schedules no compaction, whatever the threshold.
C14_UnavailableReadingIsNoOp ==
    (hTick.op = "tick" /\ environment = "unsupported") =>
        (~hTick.optimized /\ ~hTick.scheduled)

\* C14 amended: such a tick takes 0 as its sample and compares it with the
\* threshold: no hint and no compaction for a threshold of 0 or more, a hint
\* for a negative threshold.
C14_UnavailableReadingComparedAsZero ==
    (hTick.op = "tick" /\ environment = "unsupported") =>
        /\ hTick.sample = 0
        /\ hTick.optimized <=> memoryThreshold < 0
        /\ memoryThreshold >= 0 => ~hTick.scheduled

C14_Witness ==
    /\ hTick.op = "tick"
    /\ environment = "unsupported"
    /\ memoryThreshold >= 0
    /\ ~hTick.optimized

\* ceil(n / c) for c > 0
CeilDiv(n, c) == (n + c - 1) \div c

\* The size the last of the slices of n items has: n mod c, or c.
LastSliceSize(n, c) == IF n % c = 0 THEN c ELSE n % c

\* C15: a call over N items whose callback never fails has, when it is over,
\* invoked the callback ceil(N / chunkSize) times, every slice but the last
\* with chunkSize items and the last with N mod chunkSize items, or
\* chunkSize when that is 0.
C15_CallbackCalledCeilTimes ==
    (chunkRun.status \in {"resolved", "rejected"} /\ chunkRun.failAt = NeverFails) =>
        /\ Len(hSlices) = CeilDiv(chunkRun.length, ChunkSize)
        /\ \A i \in 1..Len(hSlices) :
              hSlices[i].size = IF i < Len(hSlices) THEN ChunkSize
                                ELSE LastSliceSize(chunkRun.length, ChunkSize)

\* C16 as stated: after a slice, optimizeMemory is called exactly when the
\* sample taken after the slice is greater than the threshold.
C16_SliceHintIffOverThreshold ==
    (hSlice.op = "slice" /\ hSlice.returned) =>
        (hSlice.hinted <=> hSlice.sample > memoryThreshold)

\* C16 amended: after a slice, optimizeMemory is called exactly when the
\* sample is greater than the threshold and lowTraffic() is true.
C16_SliceHintIffOverThresholdAndIdle ==
    (hSlice.op = "slice" /\ hSlice.returned) =>
        (hSlice.hinted <=> (hSlice.sample > memoryThreshold /\ hSlice.idle))

\* A slice followed by a sample over the threshold outside a low-traffic
\* period: no hint.
C16_Witness ==
    /\ hSlice.op = "slice"
    /\ hSlice.returned
    /\ hSlice.sample > memoryThreshold
    /\ ~hSlice.idle
    /\ ~hSlice.hinted

\* C17: once the callback has been invoked for the slice on which it fails,
\* the promise of the call is rejected with that failure and the callback
\* has been invoked for no later slice.
C17_CallbackFailureAborts ==
    (/\ chunkRun.status # "not called"
     /\ chunkRun.failAt # NeverFails
     /\ Len(hSlices) >= chunkRun.failAt) =>
        /\ chunkRun.status = "rejected"
        /\ chunkRun.error = "processCallback"
        /\ Len(hSlices) = chunkRun.failAt

\* The callback failed on a slice that was not the last of dataArray.
C17_Witness ==
    /\ chunkRun.status = "rejected"
    /\ chunkRun.error = "processCallback"
    /\ Len(hSlices) = chunkRun.failAt
    /\ chunkRun.failAt < CeilDiv(chunkRun.length, ChunkSize)

\* Fractions in lowest terms, to compare two of them.
RECURSIVE GCD(_, _)
GCD(a, b) == IF b = 0 THEN a ELSE GCD(b, a % b)

Reduced(num, den) ==
    LET g == GCD(num, den) IN [num |-> num \div g, den |-> den \div g]

\* C18 as stated: getAverageMemoryUsage returns the arithmetic mean of the
\* series in bytes, and 200 for <<100, 200, 300>>.
C18_AverageInBytes ==
    (hAverage.op = "getAverageMemoryUsage" /\ hAverage.memoryUsages # << >>) =>
        /\ hAverage.result.den # 0
        /\ Reduced(hAverage.result.num, hAverage.result.den)
             = Reduced(TotalUsage(hAverage.memoryUsages), Len(hAverage.memoryUsages))
        /\ hAverage.memoryUsages = <<100, 200, 300>>
             => Reduced(hAverage.result.num, hAverage.result.den) = Reduced(200, 1)

\* C18 amended: getAverageMemoryUsage returns the arithmetic mean of the
\* series divided by 1048576 (megabytes), and 200 / 1048576 for
\* <<100, 200, 300>>.
C18_AverageInMegabytes ==
    (hAverage.op = "getAverageMemoryUsage" /\ hAverage.memoryUsages # << >>) =>
        /\ hAverage.result.den # 0
        /\ Reduced(hAverage.result.num, hAverage.result.den)
             = Reduced(TotalUsage(hAverage.memoryUsages),
                       Len(hAverage.memoryUsages) * 1048576)
        /\ hAverage.memoryUsages = <<100, 200, 300>>
             => Reduced(hAverage.result.num, hAverage.result.den)
                  = Reduced(200, 1048576)

C18_Witness ==
    /\ hAverage.op = "getAverageMemoryUsage"
    /\ hAverage.memoryUsages = <<100, 200, 300>>
    /\ Reduced(hAverage.result.num, hAverage.result.den) = Reduced(200, 1048576)

\* The series stored for a name; none for a name that is not an own key.
SeriesOf(patterns, operationName) ==
    IF operationName \in DOMAIN patterns THEN patterns[operationName] ELSE << >>

\* C19: a learnMemoryPattern call emits the summary exactly when the series
\* of its operation name then holds more than 5 samples, whatever the other
\* names' series hold.
C19_SummaryIffMoreThanFive ==
    hLearn.op = "learnMemoryPattern" =>
        (hLearn.emitted <=> Len(SeriesOf(learnedPatterns, hLearn.operationName)) > 5)

\* The summary is emitted on the sixth sample of a name, and was not on
\* the call before although the two series together held more than 5.
C19_Witness ==
    /\ hLearn.op = "learnMemoryPattern"
    /\ hLearn.emitted
    /\ Len(SeriesOf(learnedPatterns, hLearn.operationName)) = 6
    /\ \E l \in OwnLabels \ {hLearn.operationName} : Len(learnedPatterns[l]) = 5

\* C20: a learnMemoryPattern call leaves the series of its operation name
\* as it was with the sample appended, and every other series as it was.
C20_RecordAppendsOneSample ==
    hLearn.op = "learnMemoryPattern" =>
        /\ SeriesOf(learnedPatterns, hLearn.operationName)
             = Append(SeriesOf(hLearn.before, hLearn.operationName), hLearn.memoryUsage)
        /\ \A l \in OwnLabels \ {hLearn.operationName} :
              learnedPatterns[l] = hLearn.before[l]

\* C21: a clearAllOperations call leaves no entry in the Map, and no
\* step calls the cleanupFunction or releases the element of an operation
\* whose entry has been removed (by a clearAllOperations call before, or by
\* the .then job).
C21_ClearAllEmptiesAndIsIdempotent ==
    [][/\ ClearAllOperations => operations' = << >>
       /\ \A id \in OpIds :
             hDelete[id] > 0
                => (hTeardown'[id] = hTeardown[id] /\ hRelease'[id] = hRelease[id])]_vars

UniqueIds(ops) ==
    \A j, k \in 1..Len(ops) : ops[j].id = ops[k].id => j = k

\* C25: the entries of the Map have pairwise different ids; the entry of an
\* operation is removed at most once, and exactly once when its promise has
\* settled and the .then job has run; its cleanupFunction is called and its
\* element released at most once.
C25_EachBindingCleanedOnce ==
    /\ UniqueIds(operations)
    /\ \A id \in OpIds :
          /\ hDelete[id] <= 1
          /\ hTeardown[id] <= 1
          /\ hRelease[id] <= 1
          /\ (promise[id] \in {"fulfilled", "rejected"} /\ thenPromise[id] # "pending")
                => hDelete[id] = 1

\* The steps of a cleanup in the order of the code, for an operation with
\* or without a cleanupFunction.
StepsInOrder(steps) ==
    \/ steps = << >>
    \/ [k \in 1..Len(steps) |-> steps[k].step]
          \in {<<"cleanupFunction", "releaseElement", "delete">>,
               <<"releaseElement", "delete">>}

\* C27: the cleanup of an operation calls the cleanupFunction, if there is
\* one, then releases the element, then deletes the entry, and the entry
\* is in the Map while the cleanupFunction and releaseElement run.
C27_CleanupStepsInOrder ==
    \A id \in OpIds :
        /\ hDelete[id] > 0 => StepsInOrder(hSteps[id])
        /\ \A k \in 1..Len(hSteps[id]) : hSteps[id][k].present

\* Both kinds of operation cleaned up, one by its .then job and one by
\* clearAllOperations.
C27_Witness ==
    /\ \E id \in OpIds :
          /\ Len(hSteps[id]) = 3 /\ hDelete[id] = 1
          /\ thenPromise[id] = "fulfilled"
    /\ \E id \in OpIds :
          /\ Len(hSteps[id]) = 2 /\ hDelete[id] = 1
          /\ thenPromise[id] = "pending"
          /\ hClearAll = "returned"

\* C23: every element in a pool carries no content, no attribute and no
\* listener, and neither does the element a getElement call has just taken
\* from a pool.
C23_PooledElementsSanitized ==
    /\ \A key \in PoolKeys : \A i \in 1..Len(pools[key]) :
          attached[pools[key][i]] = {}
    /\ (hLast.op = "getElement" /\ hLast.reused) => attached[hLast.element] = {}

\* C24: clearPool(elementType) empties the pool of that key and leaves the
\* other pools as they are, clearAllPools empties every pool, neither changes
\* the children of a container, the elements or the elements in use, and a
\* getElement right after a clear (of the same key, or of all) creates an
\* element.
C24_ClearLeavesTheRestAlone ==
    [][/\ hLast'.op = "clearPool" =>
             /\ pools' = [pools EXCEPT ![hLast'.elementType] = << >>]
             /\ UNCHANGED <<children, elemTag, attached, hInUse>>
       /\ hLast'.op = "clearAllPools" =>
             /\ \A key \in PoolKeys : pools'[key] = << >>
             /\ UNCHANGED <<children, elemTag, attached, hInUse>>
       /\ (/\ hLast'.op = "getElement"
           /\ \/ hLast.op = "clearAllPools"
              \/ hLast.op = "clearPool" /\ hLast.elementType = hLast'.elementType)
            => (~hLast'.reused /\ hLast'.element = Len(elemTag) + 1)]_vars

\* A clearPool that left another pool holding an element, with an element
\* in use and a child in the container.
C24_Witness ==
    /\ hLast.op = "clearPool"
    /\ \E key \in PoolKeys \ {hLast.elementType} : pools[key] # << >>
    /\ pools[hLast.elementType] = << >>
    /\ hInUse # {}
    /\ children["list"] # << >>

\* C26: a monitorMemory that samples an operation (it has the reading and the
\* operation's record) triggers the alert if and only if the reading is
\* greater than the alert threshold, and the alert leaves the series, the
\* history and the operation records as they were when it was tested.
C26_AlertIffOverThreshold ==
    (hMonitor.op \in {"registerOperation", "monitorMemory"} /\ hMonitor.did.sampled)
        => /\ hMonitor.did.alerted <=> hMonitor.did.memoryUsage > AlertThreshold
           /\ hMonitor.did.alerted => ProfilerState = hMonitor.did.atAlert

\* C28: at most one deferred compaction is pending and the flag
\* compactionScheduled is true exactly while one is; a tick over the
\* threshold in a low-traffic period that finds the flag set schedules
\* nothing, and the flag is false once compactHeap has run.
C28_FlagIffCompactionPending ==
    /\ pendingCompactions \in {0, 1}
    /\ compactionScheduled <=> pendingCompactions = 1
    /\ (hTick.op = "tick" /\ hTick.flagBefore) => ~hTick.scheduled
    /\ hLastOp = "compactHeap" => ~compactionScheduled

\* compactHeap has run and reset the flag, after a tick over the threshold
\* in a low-traffic period that scheduled nothing because the flag was set.
C28_Witness ==
    /\ hLastOp = "compactHeap"
    /\ ~compactionScheduled
    /\ pendingCompactions = 0
    /\ hTick.op = "tick"
    /\ hTick.optimized
    /\ hTick.idle
    /\ hTick.flagBefore
    /\ ~hTick.scheduled

C30_NextSliceAfterYield ==
    [][/\ Len(hSlices') > Len(hSlices) =>
             /\ Len(hSlices') = Len(hSlices) + 1
             /\ chunkRun.status \in {"not called", "suspended"}
             /\ hSlices # << >> =>
                   /\ chunkRun.status = "suspended"
                   /\ hSlice.op = "slice"
                   /\ hSlice.call = Len(hSlices)
                   /\ hSlice.returned
                   /\ hSlice.sample \in Samples
       /\ chunkVars' # chunkVars => UNCHANGED monitorVars]_vars

\* The run is suspended after its first slice, which ran before any method
\* of the monitor, with a slice still to come; since then the monitor was
\* started, a tick scheduled a compaction and the compaction ran.
C30_Witness ==
    /\ chunkRun.status = "suspended"
    /\ Len(hSlices) = 1
    /\ chunkRun.index < chunkRun.length
    /\ hSlice.op = "slice"
    /\ hSlice.after = "constructor"
    /\ hTick.op = "tick"
    /\ hTick.scheduled
    /\ hLastOp = "compactHeap"

\* C31: a call whose callback never fails is in the end resolved, when
\* every zero-delay timer fires in the end, and it is resolved only after
\* the callback was invoked for the last slice.
C31_EventuallyCompletes ==
    /\ [](chunkRun.status = "resolved" =>
             /\ chunkRun.index >= chunkRun.length
             /\ Len(hSlices) = CeilDiv(chunkRun.length, ChunkSize))
    /\ (chunkRun.status # "not called" /\ chunkRun.failAt = NeverFails)
          ~> chunkRun.status = "resolved"

C33_UnsupportedRegisterStillReturns ==
    (hMonitor.op = "registerOperation" /\ profilerEnvironment = "unsupported") =>
        /\ hMonitor.did.threw = "none"
        /\ hMonitor.returned = hMonitor.operationId
        /\ hMonitor.returned # Undefined
        /\ profilerOperations[hMonitor.operationId] =
              [present |-> TRUE, operationName |-> hMonitor.operationName,
               memoryUsage |-> Undefined]
        /\ learnedPatterns = hMonitor.before.patterns
        /\ memoryHistory = hMonitor.before.history
        /\ ~hMonitor.did.called
        /\ ~hMonitor.did.alerted

\* A registerOperation with a callback, without a reading, that returned
\* the second token.
C33_Witness ==
    /\ hMonitor.op = "registerOperation"
    /\ profilerEnvironment = "unsupported"
    /\ hMonitor.callback # "none"
    /\ hMonitor.returned = 2
    /\ profilerOperations[2].present
    /\ memoryHistory = << >>

\* C34: at most one timer set by startMonitoring is active, whatever calls
\* of startMonitoring and stopMonitoring were made.
C34_AtMostOneActiveTimer == Cardinality(activeTimers) <= 1

C36_ReconcileTakesOnlyWhatIsMissing ==
    [][hLast'.op = "updateContainer" =>
          LET n == Len(hLast'.items)
              t == hLast'.elementType
              k == Len(children[hLast'.container])
              p == Len(pools[t])
              missing == IF n > k THEN n - k ELSE 0
          IN  /\ n > k => Len(pools'[t]) = p - Min(p, missing)
              /\ Len(elemTag') - Len(elemTag) = (IF missing > p THEN missing - p ELSE 0)
              /\ n <= k =>
                    /\ elemTag' = elemTag
                    /\ Len(pools'[t]) >= p
                    /\ SubSeq(pools'[t], 1, p) = pools[t]
              /\ \A i \in 1..Min(n, k) :
                    LET child == children[hLast'.container][i]
                    IN  /\ \A j \in (k + 1)..n : hLast'.rendered[j] # child
                        /\ Slots(pools', child) <= Slots(pools, child)]_vars

\* C37: the history has as many entries as the series of all labels have
\* samples together.
C37_HistoryMatchesSeries ==
    Len(memoryHistory) = TotalSamples(learnedPatterns, OwnLabels)

\* C38: completeOperation(operationId) removes the record of operationId
\* and no other, and leaves the series and the history as they were; on a
\* token whose record is gone, monitorMemory and completeOperation change
\* nothing: no sample, no callback call, no alert, no record.
C38_CompleteRemovesOnlyItsRecord ==
    /\ hMonitor.op = "completeOperation" =>
          /\ profilerOperations =
                [hMonitor.before.operations EXCEPT ![hMonitor.operationId] = NoRecord]
          /\ learnedPatterns = hMonitor.before.patterns
          /\ memoryHistory = hMonitor.before.history
          /\ ~hMonitor.found => ProfilerData = hMonitor.before
    /\ (/\ hMonitor.op = "monitorMemory"
        /\ ~hMonitor.before.operations[hMonitor.operationId].present) =>
          /\ ProfilerData = hMonitor.before
          /\ ~hMonitor.did.sampled
          /\ ~hMonitor.did.called
          /\ ~hMonitor.did.alerted
          /\ hMonitor.did.threw = "none"

\* monitorMemory with a callback and a reading over the threshold, on the
\* token of an operation that was registered, sampled and completed, while
\* the other operation is still in the map.
C38_Witness ==
    /\ hMonitor.op = "monitorMemory"
    /\ hMonitor.operationId < nextOperationId
    /\ ~profilerOperations[hMonitor.operationId].present
    /\ \E t \in Tokens : profilerOperations[t].present
    /\ hMonitor.callback # "none"
    /\ hMonitor.did.read
    /\ hMonitor.did.memoryUsage > AlertThreshold
    /\ memoryHistory # << >>

====
